---------------------------- MODULE Spec2Model ----------------------------
(***************************************************************************)
(* Model of scripts/upsert-records.py: one invocation of the script reads  *)
(* the desired records of one zone, GETs the zone's RRsets from the remote *)
(* PowerDNS server, builds the target RRsets (make_rrsets, patch_soa,      *)
(* add_heritage_records), derives the owned keys from the remote heritage  *)
(* records, refuses to overwrite foreign records, computes the patch list  *)
(* and PATCHes it.  The remote server's zone is the only durable state;    *)
(* the script may be invoked again against the zone it has just patched.   *)
(*                                                                         *)
(* Python strings are TLA+ strings; a Python dict of RRsets (insertion     *)
(* ordered) is a sequence of RRsets with pairwise different (name, type);  *)
(* a Python dict with optional keys (an input item, a record, an RRset) is *)
(* a function whose DOMAIN is the set of keys present.                     *)
(***************************************************************************)
EXTENDS Integers, Sequences, FiniteSets, TLC

(***************************************************************************)
(* Bounds of the model.                                                    *)
(***************************************************************************)
MaxItems == 2      \* longest item list of the varied input RRset
MaxRemote == 2     \* RRsets on the server besides the zone's SOA and NS, at first
MaxRuns == 2       \* invocations of the script in one behaviour

(***************************************************************************)
(* Python string primitives.                                               *)
(***************************************************************************)
\* The printable ASCII characters 32..95 and 97..126 in code-point order
\* (96, the backquote, cannot be written in a TLA+ string).
AsciiLow == " !\"#$%&'()*+,-./0123456789:;<=>?@ABCDEFGHIJKLMNOPQRSTUVWXYZ[\\]^_"
AsciiHigh == "abcdefghijklmnopqrstuvwxyz{|}~"

\* ord(c) of a printable ASCII character: Python compares strings by code point.
Ord(c) ==
    IF \E i \in 1..Len(AsciiLow) : SubSeq(AsciiLow, i, i) = c
    THEN 31 + (CHOOSE i \in 1..Len(AsciiLow) : SubSeq(AsciiLow, i, i) = c)
    ELSE 96 + (CHOOSE i \in 1..Len(AsciiHigh) : SubSeq(AsciiHigh, i, i) = c)

\* a < b on Python strings: the first place where they differ decides by
\* code point; a proper prefix is less.
StrLess(a, b) ==
    LET shorter == IF Len(a) < Len(b) THEN Len(a) ELSE Len(b)
        differ == {i \in 1..shorter : SubSeq(a, i, i) # SubSeq(b, i, i)}
    IN  IF differ = {} THEN Len(a) < Len(b)
        ELSE LET i == CHOOSE d \in differ : \A e \in differ : d <= e
             IN  Ord(SubSeq(a, i, i)) < Ord(SubSeq(b, i, i))

\* s.startswith(p)
startswith(s, p) == Len(s) >= Len(p) /\ SubSeq(s, 1, Len(p)) = p

\* s.split(sep) for a one-character separator: empty tokens are kept.
RECURSIVE split(_, _)
split(s, sep) ==
    LET hits == {i \in 1..Len(s) : SubSeq(s, i, i) = sep}
    IN  IF hits = {} THEN <<s>>
        ELSE LET i == CHOOSE h \in hits : \A g \in hits : h <= g
             IN  <<SubSeq(s, 1, i - 1)>> \o split(SubSeq(s, i + 1, Len(s)), sep)

\* sep.join(tokens)
RECURSIVE join(_, _)
join(sep, tokens) ==
    IF tokens = <<>> THEN ""
    ELSE IF Len(tokens) = 1 THEN tokens[1]
    ELSE tokens[1] \o sep \o join(sep, Tail(tokens))

(***************************************************************************)
(* Errors: the messages of the ValueErrors the script raises, and the      *)
(* exceptions of the interpreter and of the requests library.              *)
(***************************************************************************)
NoError == "none"
InvalidRecordItem == "Illegal key(s) in item for RRset"
DuplicateTTLDirective == "Duplicate TTL for RRset"
MissingSOA == "Zone has no SOA RRset"
EmptySOA == "Zone has SOA RRset with zero records"
MultipleSOA == "Zone has SOA RRset with multiple records"
OwnershipConflict == "Attempted to overwrite foreign-owned record(s)"
IndexError == "IndexError"
ConnectionError == "requests.ConnectionError"

Ok(v) == [err |-> NoError, val |-> v]
Raise(e) == [err |-> e, val |-> <<>>]

(***************************************************************************)
(* Dicts of RRsets, indexed by name and type.                              *)
(***************************************************************************)
KeyOf(rrset) == <<rrset.name, rrset.type>>

Keys(rrsets) == {KeyOf(rrsets[i]) : i \in 1..Len(rrsets)}

\* rrsets[key]
At(rrsets, key) == rrsets[CHOOSE i \in 1..Len(rrsets) : KeyOf(rrsets[i]) = key]

\* rrsets[key] = rrset: a new key is appended, an old key keeps its place.
Put(rrsets, rrset) ==
    IF KeyOf(rrset) \in Keys(rrsets)
    THEN [i \in 1..Len(rrsets) |->
            IF KeyOf(rrsets[i]) = KeyOf(rrset) THEN rrset ELSE rrsets[i]]
    ELSE Append(rrsets, rrset)

RECURSIVE index_rrsets(_)
index_rrsets(rrset_list) ==
    IF rrset_list = <<>> THEN <<>>
    ELSE LET before == index_rrsets(SubSeq(rrset_list, 1, Len(rrset_list) - 1))
         IN  Put(before, rrset_list[Len(rrset_list)])

(***************************************************************************)
(* normalized_rrset: list.sort(key = content) is stable.                   *)
(***************************************************************************)
\* Insert record r behind every record whose content is not greater.
RECURSIVE InsertByContent(_, _)
InsertByContent(sorted, r) ==
    IF sorted = <<>> THEN <<r>>
    ELSE IF StrLess(r.content, sorted[1].content) THEN <<r>> \o sorted
    ELSE LET rest == Tail(sorted)
         IN  <<sorted[1]>> \o InsertByContent(rest, r)

RECURSIVE sort_by_content(_)
sort_by_content(records) ==
    IF records = <<>> THEN <<>>
    ELSE LET before == sort_by_content(SubSeq(records, 1, Len(records) - 1))
         IN  InsertByContent(before, records[Len(records)])

\* Mutant of normalized_rrset: the comments go, the records stay as they are.
normalized_rrset_unsorted(rrset) ==
    [k \in DOMAIN rrset \ {"comments"} |-> rrset[k]]

normalized_rrset(rrset) ==
    LET normalized == [k \in DOMAIN rrset \ {"comments"} |-> rrset[k]]
    IN  IF "records" \in DOMAIN normalized
        THEN [normalized EXCEPT !["records"] = sort_by_content(rrset.records)]
        ELSE normalized

\* The argument of normalized_rrset after the call: copy.copy is shallow, so
\* the list that is sorted is the argument's own list.
sorted_in_place(rrset) ==
    IF "records" \in DOMAIN rrset
    THEN [rrset EXCEPT !["records"] = sort_by_content(rrset.records)]
    ELSE rrset

(***************************************************************************)
(* make_rrsets / make_rrset.  The input's "records" (domain -> type ->      *)
(* item list) is the sequence of its (domain, type, items) entries in      *)
(* iteration order; an item is a function from its keys to their values.   *)
(***************************************************************************)
\* Mutant of illegal_keys: no key is reported as illegal.
illegal_keys_none(item, allowed) == {}

\* [key for key in item.keys() if key not in allowed]
illegal_keys(item, allowed) == {key \in DOMAIN item : key \notin allowed}

\* The loop over item_list: ttl_from_item_list is <<>> for None, <<t>> for t.
RECURSIVE scan_items(_, _, _)
scan_items(item_list, records, ttl_from_item_list) ==
    IF item_list = <<>>
    THEN Ok([records |-> records, ttl |-> ttl_from_item_list])
    ELSE LET item == Head(item_list)
         IN  IF "c" \in DOMAIN item
             THEN IF illegal_keys(item, {"c", "r"}) # {}
                  THEN Raise(InvalidRecordItem)
                  ELSE LET record ==
                               IF "r" \in DOMAIN item
                               THEN [content |-> item.c, disabled |-> FALSE]
                                        @@ ("set-ptr" :> item.r)
                               ELSE [content |-> item.c, disabled |-> FALSE]
                       IN  scan_items(Tail(item_list), Append(records, record),
                                      ttl_from_item_list)
             ELSE IF "t" \in DOMAIN item
             THEN IF illegal_keys(item, {"t"}) # {}
                  THEN Raise(InvalidRecordItem)
                  ELSE IF ttl_from_item_list # <<>>
                  THEN Raise(DuplicateTTLDirective)
                  ELSE scan_items(Tail(item_list), records, <<item.t>>)
             ELSE scan_items(Tail(item_list), records, ttl_from_item_list)

\* The TTLs of the input format are JSON integers, on which int() changes
\* nothing.
make_rrset(domain, record_type, item_list, default_ttl) ==
    LET name == domain \o "."
        scanned == scan_items(item_list, <<>>, <<>>)
    IN  IF scanned.err # NoError THEN Raise(scanned.err)
        ELSE Ok([name |-> name,
                 type |-> record_type,
                 records |-> scanned.val.records,
                 ttl |-> IF scanned.val.ttl # <<>> THEN scanned.val.ttl[1]
                         ELSE default_ttl])

\* The RRsets of the first n entries, or the first error raised among them.
RECURSIVE make_rrset_list(_, _, _)
make_rrset_list(records, n, default_ttl) ==
    IF n = 0 THEN Ok(<<>>)
    ELSE LET before == make_rrset_list(records, n - 1, default_ttl)
             made == make_rrset(records[n].domain, records[n].type,
                                records[n].items, default_ttl)
         IN  IF before.err # NoError THEN before
             ELSE IF made.err # NoError THEN Raise(made.err)
             ELSE Ok(Append(before.val, made.val))

make_rrsets(records, default_ttl) ==
    LET rrset_list == make_rrset_list(records, Len(records), default_ttl)
    IN  IF rrset_list.err # NoError THEN rrset_list
        ELSE Ok(index_rrsets(rrset_list.val))

(***************************************************************************)
(* patch_soa / extract_soa.                                                *)
(***************************************************************************)
extract_soa(rrsets, zone_id) ==
    LET name == zone_id \o "."
    IN  IF <<name, "SOA">> \notin Keys(rrsets) THEN Raise(MissingSOA)
        ELSE LET rrset == At(rrsets, <<name, "SOA">>)
             IN  IF Len(rrset.records) < 1 THEN Raise(EmptySOA)
                 ELSE IF Len(rrset.records) > 1 THEN Raise(MultipleSOA)
                 ELSE Ok(rrset.records[1].content)

\* Mutant of result_soa: the remote serial is injected whatever the serial is.
result_soa_always(dst_soa, src_soa) ==
    LET tokens == split(dst_soa, " ")
    IN  IF Len(tokens) < 3 \/ Len(split(src_soa, " ")) < 3 THEN Raise(IndexError)
        ELSE Ok(join(" ", [tokens EXCEPT ![3] = split(src_soa, " ")[3]]))

\* result_soa of patch_soa; tokens[2] of the code is tokens[3] here.
result_soa(dst_soa, src_soa) ==
    LET tokens == split(dst_soa, " ")
    IN  IF Len(tokens) < 3 THEN Raise(IndexError)
        ELSE IF tokens[3] = "AUTO"
        THEN IF Len(split(src_soa, " ")) < 3 THEN Raise(IndexError)
             ELSE Ok(join(" ", [tokens EXCEPT ![3] = split(src_soa, " ")[3]]))
        ELSE Ok(join(" ", tokens))

patch_soa(dst_rrsets, src_rrsets, zone_id) ==
    LET dst_soa == extract_soa(dst_rrsets, zone_id)
        src_soa == extract_soa(src_rrsets, zone_id)
    IN  IF dst_soa.err # NoError THEN dst_soa
        ELSE IF src_soa.err # NoError THEN src_soa
        ELSE LET result == result_soa(dst_soa.val, src_soa.val)
             IN  IF result.err # NoError THEN result
                 ELSE IF \E i \in 1..Len(dst_rrsets) :
                            /\ dst_rrsets[i].type = "SOA"
                            /\ dst_rrsets[i].records = <<>>
                 THEN Raise(IndexError)
                 ELSE Ok([i \in 1..Len(dst_rrsets) |->
                            IF dst_rrsets[i].type = "SOA"
                            THEN [dst_rrsets[i] EXCEPT
                                    !.records[1].content = result.val]
                            ELSE dst_rrsets[i]])

(***************************************************************************)
(* get_owned_keys_from_rrsets / get_owned_keys_from_rrset.                 *)
(***************************************************************************)
name_prefix == "_ansible-pdns-api."
record_prefix == "\"heritage=ansible-pdns-api,type="
record_suffix == "\""

\* The test of line 323, negated: the record is taken as a heritage record.
accepts_heritage(content) ==
    ~(~startswith(content, record_prefix) \/ ~startswith(content, record_suffix))

\* content[len(record_prefix):-len(record_suffix)]
owned_type(content) ==
    SubSeq(content, Len(record_prefix) + 1, Len(content) - Len(record_suffix))

\* Called for RRsets of type TXT only.
get_owned_keys_from_rrset(rrset) ==
    IF ~startswith(rrset.name, name_prefix) THEN {}
    ELSE LET name == SubSeq(rrset.name, Len(name_prefix) + 1, Len(rrset.name))
         IN  {<<rrset.name, "TXT">>} \cup
             {<<name, owned_type(rrset.records[i].content)>> :
                 i \in {j \in 1..Len(rrset.records) :
                           accepts_heritage(rrset.records[j].content)}}

get_owned_keys_from_rrsets(rrsets) ==
    UNION {get_owned_keys_from_rrset(rrsets[i]) :
              i \in {j \in 1..Len(rrsets) : rrsets[j].type = "TXT"}}

(***************************************************************************)
(* add_heritage_records.                                                   *)
(***************************************************************************)
\* Mutant of heritage_record: the content is written without its quotes.
heritage_record_unquoted(type) ==
    [content |-> "heritage=ansible-pdns-api,type=" \o type, disabled |-> FALSE]

heritage_record(type) ==
    [content |-> "\"heritage=ansible-pdns-api,type=" \o type \o "\"",
     disabled |-> FALSE]

\* extended_rrsets after the loop has visited the first n RRsets of rrsets.
RECURSIVE extend_rrsets(_, _, _)
extend_rrsets(rrsets, n, default_ttl) ==
    IF n = 0 THEN rrsets
    ELSE LET extended == extend_rrsets(rrsets, n - 1, default_ttl)
             rrset == rrsets[n]
             heritage_name == name_prefix \o rrset.name
             key == <<heritage_name, "TXT">>
             with_key == IF key \notin Keys(extended)
                         THEN Append(extended, [name |-> heritage_name,
                                                type |-> "TXT",
                                                records |-> <<>>,
                                                ttl |-> default_ttl])
                         ELSE extended
         IN  [i \in 1..Len(with_key) |->
                IF KeyOf(with_key[i]) = key
                THEN [with_key[i] EXCEPT
                        !.records = Append(@, heritage_record(rrset.type))]
                ELSE with_key[i]]

add_heritage_records(rrsets, default_ttl) ==
    extend_rrsets(rrsets, Len(rrsets), default_ttl)

(***************************************************************************)
(* main, lines 56-86: the conflicts and the patch list.                    *)
(***************************************************************************)
\* Mutant of conflicting_rrset_list: NS and SOA are not exempt.
conflicting_rrset_list_all_types(target_rrsets, remote_rrsets, owned_keys) ==
    LET conflicting(rrset) ==
            /\ KeyOf(rrset) \in Keys(remote_rrsets)
            /\ KeyOf(rrset) \notin owned_keys
    IN  SelectSeq(target_rrsets, conflicting)

conflicting_rrset_list(target_rrsets, remote_rrsets, owned_keys) ==
    LET conflicting(rrset) ==
            /\ KeyOf(rrset) \in Keys(remote_rrsets)
            /\ KeyOf(rrset) \notin owned_keys
            /\ rrset.type \notin {"NS", "SOA"}
    IN  SelectSeq(target_rrsets, conflicting)

Values(rrsets) == {rrsets[i] : i \in 1..Len(rrsets)}

\* The filter's normalized_rrset(rrset) has sorted rrset's records by the time
\* {**rrset, "changetype": "REPLACE"} is built.
replace_patches(target_rrsets, remote_rrsets) ==
    LET differs(rrset) == normalized_rrset(rrset) \notin Values(remote_rrsets)
        changed == SelectSeq(target_rrsets, differs)
    IN  [i \in 1..Len(changed) |->
            sorted_in_place(changed[i]) @@ [changetype |-> "REPLACE"]]

\* Mutant of delete_patches: every remote key absent from the target is deleted.
delete_patches_unowned(target_rrsets, remote_rrsets, owned_keys) ==
    LET dropped(rrset) == KeyOf(rrset) \notin Keys(target_rrsets)
        gone == SelectSeq(remote_rrsets, dropped)
    IN  [i \in 1..Len(gone) |->
            [name |-> gone[i].name, type |-> gone[i].type,
             changetype |-> "DELETE"]]

delete_patches(target_rrsets, remote_rrsets, owned_keys) ==
    LET dropped(rrset) ==
            /\ KeyOf(rrset) \in owned_keys
            /\ KeyOf(rrset) \notin Keys(target_rrsets)
        gone == SelectSeq(remote_rrsets, dropped)
    IN  [i \in 1..Len(gone) |->
            [name |-> gone[i].name, type |-> gone[i].type,
             changetype |-> "DELETE"]]

compute_patches(target_rrsets, remote_rrsets, owned_keys) ==
    replace_patches(target_rrsets, remote_rrsets)
        \o delete_patches(target_rrsets, remote_rrsets, owned_keys)

(***************************************************************************)
(* The PowerDNS server behind the HTTP API.                                *)
(***************************************************************************)
\* What the server keeps of a REPLACE patch: name, type, ttl and the records'
\* content and disabled.
stored_rrset(patch) ==
    [name |-> patch.name,
     type |-> patch.type,
     ttl |-> patch.ttl,
     records |-> [i \in 1..Len(patch.records) |->
                    [content |-> patch.records[i].content,
                     disabled |-> patch.records[i].disabled]]]

\* The zone after the server has applied the first n patches.
RECURSIVE apply_patches(_, _, _)
apply_patches(zone_rrsets, rrset_patches, n) ==
    IF n = 0 THEN zone_rrsets
    ELSE LET before == apply_patches(zone_rrsets, rrset_patches, n - 1)
             patch == rrset_patches[n]
             other(rrset) == KeyOf(rrset) # KeyOf(patch)
         IN  IF patch.changetype = "REPLACE"
             THEN Put(before, stored_rrset(patch))
             ELSE SelectSeq(before, other)

\* The "rrsets" of the GET response, normalized and indexed.
http_get_rrsets(zone_rrsets) ==
    index_rrsets([i \in 1..Len(zone_rrsets) |-> normalized_rrset(zone_rrsets[i])])

(***************************************************************************)
(* The inputs the model draws from.                                        *)
(***************************************************************************)
ZoneId == "z"

ItemPool ==
    { [c |-> "1"], [c |-> "2"], [c |-> "1", r |-> TRUE],
      [c |-> "1", x |-> 1], [t |-> 4], [t |-> 4, x |-> 1] }

ItemLists == UNION {[1..n -> ItemPool] : n \in 0..MaxItems}

SoaEntries ==
    { <<>>,
      <<[domain |-> "z", type |-> "SOA", items |-> <<[c |-> "a b 7 c d"]>>]>>,
      <<[domain |-> "z", type |-> "SOA", items |-> <<[c |-> "a b AUTO c d"]>>]>>,
      <<[domain |-> "z", type |-> "SOA", items |-> <<[c |-> "a b 7 c d"]>>],
        [domain |-> "z", type |-> "NS", items |-> <<[c |-> "n."]>>]>> }

HostEntries ==
    {<<>>} \cup {<<[domain |-> "w", type |-> "A", items |-> l]>> : l \in ItemLists}

OtherEntries ==
    { <<>>,
      <<[domain |-> "s", type |-> "SOA", items |-> <<[c |-> "q r 1 s t"]>>]>> }

\* The zones an input file may describe: pdns_auth_api_zones[ZONE_ID].
VarFiles ==
    { [defaultTTL |-> 3, records |-> soa \o host \o other] :
        soa \in SoaEntries, host \in HostEntries, other \in OtherEntries }

RemoteSoa ==
    [name |-> "z.", type |-> "SOA", ttl |-> 3,
     records |-> <<[content |-> "a b 9 c d", disabled |-> FALSE]>>,
     comments |-> <<>>]

RemoteNs ==
    [name |-> "z.", type |-> "NS", ttl |-> 3,
     records |-> <<[content |-> "n.", disabled |-> FALSE]>>,
     comments |-> <<>>]

\* RRsets the server may hold besides the zone's SOA and NS: a host RRset (records
\* not sorted, with a comment), its heritage record, a heritage RRset whose
\* first record lacks the closing quote and whose second is no heritage
\* record, an RRset absent from every input, and its heritage record.
RemotePool ==
    << [name |-> "w.", type |-> "A", ttl |-> 3,
        records |-> <<[content |-> "2", disabled |-> FALSE],
                      [content |-> "1", disabled |-> FALSE]>>,
        comments |-> <<[content |-> "by hand", account |-> "ops"]>>],
       [name |-> "_ansible-pdns-api.w.", type |-> "TXT", ttl |-> 3,
        records |-> <<[content |-> "\"heritage=ansible-pdns-api,type=A\"",
                       disabled |-> FALSE]>>,
        comments |-> <<>>],
       [name |-> "_ansible-pdns-api.w.", type |-> "TXT", ttl |-> 3,
        records |-> <<[content |-> "\"heritage=ansible-pdns-api,type=AA",
                       disabled |-> FALSE],
                      [content |-> "\"v=spf1 -all\"", disabled |-> FALSE]>>,
        comments |-> <<>>],
       [name |-> "o.", type |-> "A", ttl |-> 3,
        records |-> <<[content |-> "5", disabled |-> FALSE]>>,
        comments |-> <<>>],
       [name |-> "_ansible-pdns-api.o.", type |-> "TXT", ttl |-> 3,
        records |-> <<[content |-> "\"heritage=ansible-pdns-api,type=A\"",
                       disabled |-> FALSE]>>,
        comments |-> <<>>] >>

\* The RRsets of RemotePool at the indices in picked, in pool order.
RECURSIVE pick(_, _)
pick(picked, n) ==
    IF n = 0 THEN <<>>
    ELSE IF n \in picked THEN Append(pick(picked, n - 1), RemotePool[n])
    ELSE pick(picked, n - 1)

\* The zones the server may hold at first: every zone carries its SOA and
\* NS, and holds one RRset per key.
RemoteZones ==
    { <<RemoteSoa, RemoteNs>> \o pick(picked, Len(RemotePool)) :
        picked \in { p \in SUBSET (1..Len(RemotePool)) :
                        /\ Cardinality(p) <= MaxRemote
                        /\ \A i, j \in p :
                              KeyOf(RemotePool[i]) = KeyOf(RemotePool[j]) => i = j } }

(***************************************************************************)
(* State.                                                                  *)
(***************************************************************************)
VARIABLES
    zone,             \* main: zone, as loaded from VARFILE (line 41)
    server,           \* the RRsets of the zone on the PowerDNS server
    pc,               \* where main is: "get", "build", "diff", "send", "exit"
    run,              \* number of this invocation of the script
    http_log,         \* the requests this invocation has issued (stderr trace)
    remote_rrsets,    \* main: remote_rrsets
    made_rrsets,      \* the value of make_rrsets(...) in line 47
    patched_rrsets,   \* the value of patch_soa(...) in line 46
    target_rrsets,    \* main: target_rrsets
    owned_keys,       \* main: owned_keys
    rrset_patches,    \* main: rrset_patches
    error             \* the exception main has died of, or NoError

vars == <<zone, server, pc, run, http_log, remote_rrsets,
          made_rrsets, patched_rrsets, target_rrsets, owned_keys,
          rrset_patches, error>>

Init ==
    /\ zone \in VarFiles
    /\ server \in RemoteZones
    /\ pc = "get"
    /\ run = 1
    /\ http_log = <<>>
    /\ remote_rrsets = <<>>
    /\ made_rrsets = <<>>
    /\ patched_rrsets = <<>>
    /\ target_rrsets = <<>>
    /\ owned_keys = {}
    /\ rrset_patches = <<>>
    /\ error = NoError

(***************************************************************************)
(* main.                                                                   *)
(***************************************************************************)
\* line 43: the GET is answered.
HttpGet ==
    /\ pc = "get"
    /\ http_log' = Append(http_log, "GET")
    /\ remote_rrsets' = http_get_rrsets(server)
    /\ pc' = "build"
    /\ UNCHANGED <<zone, server, run, made_rrsets, patched_rrsets, target_rrsets,
                   owned_keys, rrset_patches, error>>

\* line 43: the GET fails (no timeout, no retry: the exception ends the run).
HttpGetFail ==
    /\ pc = "get"
    /\ http_log' = Append(http_log, "GET")
    /\ error' = ConnectionError
    /\ pc' = "exit"
    /\ UNCHANGED <<zone, server, run, remote_rrsets, made_rrsets,
                   patched_rrsets, target_rrsets, owned_keys, rrset_patches>>

\* lines 45-52: make_rrsets, then patch_soa, then add_heritage_records.
BuildTarget ==
    /\ pc = "build"
    /\ LET made == make_rrsets(zone.records, zone.defaultTTL)
           patched == patch_soa(made.val, remote_rrsets, ZoneId)
       IN  IF made.err # NoError
           THEN /\ error' = made.err
                /\ pc' = "exit"
                /\ UNCHANGED <<made_rrsets, patched_rrsets, target_rrsets>>
           ELSE IF patched.err # NoError
           THEN /\ error' = patched.err
                /\ pc' = "exit"
                /\ made_rrsets' = made.val
                /\ UNCHANGED <<patched_rrsets, target_rrsets>>
           ELSE /\ made_rrsets' = made.val
                /\ patched_rrsets' = patched.val
                /\ target_rrsets' = add_heritage_records(patched.val, zone.defaultTTL)
                /\ pc' = "diff"
                /\ UNCHANGED error
    /\ UNCHANGED <<zone, server, run, http_log, remote_rrsets,
                   owned_keys, rrset_patches>>

\* lines 54-86: the owned keys, the conflicts, the patch list.  The filter of
\* the REPLACE patches leaves the records of every target RRset sorted.
Diff ==
    /\ pc = "diff"
    /\ LET owned == get_owned_keys_from_rrsets(remote_rrsets)
       IN  /\ owned_keys' = owned
           /\ IF conflicting_rrset_list(target_rrsets, remote_rrsets, owned) # <<>>
              THEN /\ error' = OwnershipConflict
                   /\ pc' = "exit"
                   /\ UNCHANGED <<rrset_patches, target_rrsets>>
              ELSE /\ rrset_patches' =
                          compute_patches(target_rrsets, remote_rrsets, owned)
                   /\ target_rrsets' = [i \in 1..Len(target_rrsets) |->
                                           sorted_in_place(target_rrsets[i])]
                   /\ pc' = "send"
                   /\ UNCHANGED error
    /\ UNCHANGED <<zone, server, run, http_log, remote_rrsets,
                   made_rrsets, patched_rrsets>>

\* lines 88-91: the PATCH is sent and the server applies it.
HttpPatch ==
    /\ pc = "send"
    /\ rrset_patches # <<>>
    /\ http_log' = Append(http_log, "PATCH")
    /\ server' = apply_patches(server, rrset_patches, Len(rrset_patches))
    /\ pc' = "exit"
    /\ UNCHANGED <<zone, run, remote_rrsets, made_rrsets,
                   patched_rrsets, target_rrsets, owned_keys, rrset_patches, error>>

\* line 89: the PATCH fails and the zone stays as it is.
HttpPatchFail ==
    /\ pc = "send"
    /\ rrset_patches # <<>>
    /\ http_log' = Append(http_log, "PATCH")
    /\ error' = ConnectionError
    /\ pc' = "exit"
    /\ UNCHANGED <<zone, server, run, remote_rrsets, made_rrsets,
                   patched_rrsets, target_rrsets, owned_keys, rrset_patches>>

\* lines 88, 91: nothing to patch.
NoPatch ==
    /\ pc = "send"
    /\ rrset_patches = <<>>
    /\ pc' = "exit"
    /\ UNCHANGED <<zone, server, run, http_log, remote_rrsets,
                   made_rrsets, patched_rrsets, target_rrsets, owned_keys,
                   rrset_patches, error>>

\* After a run that ended without error the script is invoked again with the
\* same arguments and the same file: everything but the server's zone is
\* rebuilt from scratch.
Rerun ==
    /\ pc = "exit"
    /\ error = NoError
    /\ run < MaxRuns
    /\ run' = run + 1
    /\ pc' = "get"
    /\ http_log' = <<>>
    /\ remote_rrsets' = <<>>
    /\ made_rrsets' = <<>>
    /\ patched_rrsets' = <<>>
    /\ target_rrsets' = <<>>
    /\ owned_keys' = {}
    /\ rrset_patches' = <<>>
    /\ error' = NoError
    /\ UNCHANGED <<zone, server>>

Next ==
    \/ HttpGet
    \/ HttpGetFail
    \/ BuildTarget
    \/ Diff
    \/ HttpPatch
    \/ HttpPatchFail
    \/ NoPatch
    \/ Rerun

Spec == Init /\ [][Next]_vars

(***************************************************************************)
(* Vocabulary of the properties.                                           *)
(***************************************************************************)
Issued(method) == \E i \in 1..Len(http_log) : http_log[i] = method

\* This run has passed the conflict check of lines 56-71.
ConflictChecked ==
    \/ pc = "send"
    \/ pc = "exit" /\ (error \in {NoError, OwnershipConflict} \/ Issued("PATCH"))

\* This run has computed its patch list (lines 73-86).
PatchesComputed ==
    \/ pc = "send"
    \/ pc = "exit" /\ (error = NoError \/ Issued("PATCH"))

\* This run has resolved the SOA serial (patch_soa has returned).
SoaResolved == patched_rrsets # <<>>

PatchKeys(changetype) ==
    { <<rrset_patches[i].name, rrset_patches[i].type>> :
        i \in {j \in 1..Len(rrset_patches) :
                  rrset_patches[j].changetype = changetype} }

ZoneSoaKey == <<ZoneId \o ".", "SOA">>

ConflictKeys ==
    { k \in Keys(target_rrsets) \cap Keys(remote_rrsets) :
        k \notin owned_keys /\ k[2] # "NS" /\ k[2] # "SOA" }

(***************************************************************************)
(* C1: once the conflict check has run, if some key of the annotated       *)
(* desired index is also in the remote index, is not owned and is neither  *)
(* NS nor SOA, the run has failed with OwnershipConflict, has computed no  *)
(* patch list and has issued no PATCH; if there is no such key the run has *)
(* not failed with OwnershipConflict.                                      *)
(***************************************************************************)
C1_ConflictDetection ==
    ConflictChecked =>
        IF ConflictKeys # {}
        THEN error = OwnershipConflict /\ rrset_patches = <<>> /\ ~Issued("PATCH")
        ELSE error # OwnershipConflict

\* A run refused for (w., A), with the unowned SOA and NS of the zone exempt.
C1_Witness ==
    /\ pc = "exit"
    /\ error = OwnershipConflict
    /\ <<"w.", "A">> \in ConflictKeys
    /\ ZoneSoaKey \in (Keys(target_rrsets) \cap Keys(remote_rrsets)) \ owned_keys
    /\ <<"z.", "NS">> \in (Keys(target_rrsets) \cap Keys(remote_rrsets)) \ owned_keys

(***************************************************************************)
(* C2: once the patch list is computed, the keys that carry a DELETE patch *)
(* are exactly the keys in the remote index, absent from the annotated     *)
(* desired index and owned; an unowned remote key is never deleted.        *)
(***************************************************************************)
C2_DeletionScope ==
    PatchesComputed =>
        PatchKeys("DELETE") =
            { k \in Keys(remote_rrsets) :
                k \notin Keys(target_rrsets) /\ k \in owned_keys }

\* A run that deletes an owned key and leaves an unowned remote key alone.
C2_Witness ==
    /\ PatchesComputed
    /\ PatchKeys("DELETE") # {}
    /\ \E k \in Keys(remote_rrsets) \ Keys(target_rrsets) : k \notin owned_keys

LiteralSerial ==
    \E i \in 1..Len(zone.records) :
        /\ zone.records[i].domain = ZoneId
        /\ zone.records[i].type = "SOA"
        /\ \A j \in 1..Len(zone.records[i].items) :
              /\ "c" \in DOMAIN zone.records[i].items[j]
              /\ Len(split(zone.records[i].items[j].c, " ")) >= 3
              /\ split(zone.records[i].items[j].c, " ")[3] # "AUTO"

(***************************************************************************)
(* C3: idempotence.  After a run that has succeeded (the server has        *)
(* applied its patch list), when the desired SOA serial is a literal, the  *)
(* next run against the updated zone does not fail and its patch list is   *)
(* empty.                                                                  *)
(***************************************************************************)
C3_Idempotence ==
    (run > 1 /\ LiteralSerial) =>
        /\ rrset_patches = <<>>
        /\ error \in {NoError, ConnectionError}

Occurrences(records, r) == Cardinality({i \in 1..Len(records) : records[i] = r})

SameRecords(a, b) ==
    /\ Len(a) = Len(b)
    /\ \A i \in 1..Len(a) : Occurrences(a, a[i]) = Occurrences(b, a[i])

Matches(rrset, remote) ==
    /\ remote.name = rrset.name
    /\ remote.type = rrset.type
    /\ remote.ttl = rrset.ttl
    /\ SameRecords(rrset.records, remote.records)

Unmatched(rrsets) ==
    { KeyOf(target_rrsets[i]) :
        i \in {j \in 1..Len(target_rrsets) :
                  \A n \in 1..Len(rrsets) : ~Matches(target_rrsets[j], rrsets[n])} }

(***************************************************************************)
(* C4: minimality.  Once the patch list is computed, a key of the          *)
(* annotated desired index carries a REPLACE patch iff the remote zone     *)
(* holds no RRset with the same name, type and ttl and the same records up *)
(* to their order, comments set aside.                                     *)
(***************************************************************************)
C4_Minimality ==
    /\ PatchesComputed => PatchKeys("REPLACE") = Unmatched(remote_rrsets)
    /\ pc = "send" => PatchKeys("REPLACE") = Unmatched(server)

\* (w., A) is on the server in another record order and with a comment, and
\* gets no REPLACE patch.
C4_Witness ==
    /\ pc = "send"
    /\ <<"w.", "A">> \in Keys(target_rrsets) \cap Keys(server)
    /\ <<"w.", "A">> \notin PatchKeys("REPLACE")
    /\ At(made_rrsets, <<"w.", "A">>).records # At(server, <<"w.", "A">>).records
    /\ At(server, <<"w.", "A">>).comments # <<>>

SoaContent(rrsets) == At(rrsets, ZoneSoaKey).records[1].content

(***************************************************************************)
(* C5: SOA AUTO substitution.  Once the serial is resolved: if the third   *)
(* token of the desired SOA content is AUTO, the resolved content has the  *)
(* remote SOA's third token in third place and the desired SOA's token in  *)
(* every other place; otherwise it is the desired SOA content.             *)
(***************************************************************************)
C5_SoaAuto ==
    SoaResolved =>
        LET desired == split(SoaContent(made_rrsets), " ")
            remote == split(SoaContent(remote_rrsets), " ")
            resolved == split(SoaContent(patched_rrsets), " ")
        IN  IF desired[3] = "AUTO"
            THEN /\ Len(resolved) = Len(desired)
                 /\ resolved[3] = remote[3]
                 /\ \A i \in 1..Len(desired) : i # 3 => resolved[i] = desired[i]
            ELSE SoaContent(patched_rrsets) = SoaContent(made_rrsets)

\* The serial AUTO has been replaced by the remote serial 9.
C5_Witness ==
    /\ SoaResolved
    /\ SoaContent(made_rrsets) = "a b AUTO c d"
    /\ SoaContent(remote_rrsets) = "a b 9 c d"
    /\ SoaContent(patched_rrsets) = "a b 9 c d"

\* The items make_rrset rejects for their keys.
IllegalItem(item) ==
    \/ "c" \in DOMAIN item /\ ~(DOMAIN item \subseteq {"c", "r"})
    \/ "c" \notin DOMAIN item /\ "t" \in DOMAIN item /\ DOMAIN item # {"t"}

HasIllegalItem ==
    \E i \in 1..Len(zone.records) :
        \E j \in 1..Len(zone.records[i].items) :
            IllegalItem(zone.records[i].items[j])

\* C6, as claimed: when the input holds an illegal item, the run fails with
\* InvalidRecordItem and neither the GET nor the PATCH is ever issued.
C6_NoNetworkCall ==
    HasIllegalItem =>
        /\ ~Issued("GET")
        /\ ~Issued("PATCH")
        /\ pc = "exit" => error = InvalidRecordItem

\* C6, amended: when the input holds an illegal item, the run never gets past
\* building the target: it issues no PATCH and computes no patch list, and it
\* ends in InvalidRecordItem, raised after the GET was issued, unless the GET
\* failed or a duplicate TTL directive was met first.
C6_NoPatchAfterGet ==
    HasIllegalItem =>
        /\ ~Issued("PATCH")
        /\ rrset_patches = <<>>
        /\ pc \in {"get", "build", "exit"}
        /\ error = InvalidRecordItem => Issued("GET")
        /\ pc = "exit" =>
              error \in {InvalidRecordItem, DuplicateTTLDirective, ConnectionError}

\* A run with an illegal item that has died of it after its GET.
C6_Witness ==
    /\ HasIllegalItem
    /\ pc = "exit"
    /\ error = InvalidRecordItem
    /\ http_log = <<"GET">>

(***************************************************************************)
(* C7: ownership round-trip.  When a run has succeeded, the owned keys     *)
(* read back from the server's zone hold the key of every RRset the input  *)
(* describes and the key of its heritage RRset.                            *)
(***************************************************************************)
C7_OwnershipRoundTrip ==
    (pc = "exit" /\ error = NoError) =>
        \A i \in 1..Len(made_rrsets) :
            /\ KeyOf(made_rrsets[i])
                  \in get_owned_keys_from_rrsets(http_get_rrsets(server))
            /\ <<"_ansible-pdns-api." \o made_rrsets[i].name, "TXT">>
                  \in get_owned_keys_from_rrsets(http_get_rrsets(server))

\* A successful run that has written the heritage RRset of (w., A).
C7_Witness ==
    /\ pc = "exit"
    /\ error = NoError
    /\ Issued("PATCH")
    /\ <<"w.", "A">> \in Keys(made_rrsets)
    /\ <<"_ansible-pdns-api.w.", "TXT">> \in PatchKeys("REPLACE")

WellFormed(content) ==
    /\ Len(content) >= Len("\"heritage=ansible-pdns-api,type=") + Len("\"")
    /\ SubSeq(content, 1, Len("\"heritage=ansible-pdns-api,type="))
          = "\"heritage=ansible-pdns-api,type="
    /\ SubSeq(content, Len(content), Len(content)) = "\""

TypeOf(content) ==
    SubSeq(content, Len("\"heritage=ansible-pdns-api,type=") + 1, Len(content) - 1)

HeritageIndices ==
    { i \in 1..Len(remote_rrsets) :
        /\ remote_rrsets[i].type = "TXT"
        /\ Len(remote_rrsets[i].name) >= Len("_ansible-pdns-api.")
        /\ SubSeq(remote_rrsets[i].name, 1, Len("_ansible-pdns-api."))
              = "_ansible-pdns-api." }

(***************************************************************************)
(* C8: once the owned keys are derived, they are the keys of the remote    *)
(* heritage RRsets and the (name, type) pairs of their well-formed records *)
(* ("heritage=ansible-pdns-api,type=<TYPE>" between double quotes); a      *)
(* record that is not of this form adds no pair.                           *)
(***************************************************************************)
C8_MalformedSkipped ==
    ConflictChecked =>
        owned_keys =
            { KeyOf(remote_rrsets[i]) : i \in HeritageIndices } \cup
            UNION { { << SubSeq(remote_rrsets[i].name,
                                Len("_ansible-pdns-api.") + 1,
                                Len(remote_rrsets[i].name)),
                         TypeOf(remote_rrsets[i].records[j].content) >> :
                        j \in { n \in 1..Len(remote_rrsets[i].records) :
                                  WellFormed(remote_rrsets[i].records[n].content) } } :
                    i \in HeritageIndices }

(***************************************************************************)
(* C9: once the serial is resolved, every RRset at a key other than        *)
(* (zone name, SOA) is in the result as it is in the input of patch_soa.   *)
(***************************************************************************)
C9_OnlyZoneSoaChanges ==
    SoaResolved =>
        /\ Len(patched_rrsets) = Len(made_rrsets)
        /\ \A i \in 1..Len(made_rrsets) :
              KeyOf(made_rrsets[i]) # ZoneSoaKey =>
                  patched_rrsets[i] = made_rrsets[i]

(***************************************************************************)
(* C10: once the patch list is computed, every REPLACE patch of an RRset   *)
(* the input describes with two or more content records carries these      *)
(* records in the input's order.                                           *)
(***************************************************************************)
C10_ReplaceKeepsOrder ==
    PatchesComputed =>
        \A i \in 1..Len(rrset_patches) :
            ( /\ rrset_patches[i].changetype = "REPLACE"
              /\ KeyOf(rrset_patches[i]) \in Keys(made_rrsets)
              /\ Len(At(made_rrsets, KeyOf(rrset_patches[i])).records) >= 2 )
            => rrset_patches[i].records
                  = At(made_rrsets, KeyOf(rrset_patches[i])).records

=============================================================================
